---- MODULE Spec2Model ----
(***************************************************************************)
(* Model of the Shop--Easy chat widget (src/src/chatbot/chatbot.tsx).      *)
(*                                                                         *)
(* The component state is the three useState cells messages, input and     *)
(* isLoading plus the module constant GEMINI_API_KEY.  Every invocation of *)
(* the async function sendMessage is an entry of `calls`, which records    *)
(* where the invocation is suspended (pc) and its locals.  One action is   *)
(* one run-to-completion step of the event loop: an event handler up to    *)
(* its first real suspension, or the code between two awaits.  A handler   *)
(* reads input and isLoading of the last committed render; React commits   *)
(* the updates of one step before the next event is dispatched, so these   *)
(* are the values of the cells.  The continuation of an await on a settled *)
(* promise is a microtask: no user event comes between the step that       *)
(* settles the promise and the continuation.                               *)
(*                                                                         *)
(* JavaScript values are tagged records, a string is a sequence of         *)
(* one-character strings.                                                  *)
(***************************************************************************)
EXTENDS Integers, Sequences, FiniteSets

\* ---------------------------------------------------------------- bounds
\* submissions accepted in one behaviour
MaxCycles == 2

\* ------------------------------------------------------ JavaScript values
Undefined == [t |-> "undefined"]
Null == [t |-> "null"]
Thrown == [t |-> "throw"]
Str(s) == [t |-> "string", s |-> s]
Num(n) == [t |-> "number", n |-> n]
Obj(fields) == [t |-> "object", f |-> fields]
Arr(elems) == [t |-> "array", a |-> elems]

\* property read v.k; reading a property of undefined or null raises a TypeError
Get(v, k) ==
  IF v.t \in {"throw", "undefined", "null"} THEN Thrown
  ELSE IF v.t = "object" /\ k \in DOMAIN v.f THEN v.f[k]
  ELSE Undefined

\* element read v[i], i counted from 0
Index(v, i) ==
  IF v.t \in {"throw", "undefined", "null"} THEN Thrown
  ELSE IF v.t = "array" /\ i + 1 \in DOMAIN v.a THEN v.a[i + 1]
  ELSE Undefined

\* ToBoolean
Truthy(v) ==
  CASE v.t \in {"undefined", "null"} -> FALSE
    [] v.t = "string" -> v.s # <<>>
    [] v.t = "number" -> v.n # 0
    [] OTHER -> TRUE

DigitChar == <<"0", "1", "2", "3", "4", "5", "6", "7", "8", "9">>

RECURSIVE Digits(_)
Digits(n) == IF n < 10 THEN <<DigitChar[n + 1]>>
             ELSE Digits(n \div 10) \o <<DigitChar[(n % 10) + 1]>>

\* the string a template literal `${v}` inserts for v
TemplateString(v) ==
  CASE v.t = "string" -> v.s
    [] v.t = "number" -> Digits(v.n)
    [] v.t = "undefined" -> <<"u", "n", "d", "e", "f", "i", "n", "e", "d">>
    [] v.t = "null" -> <<"n", "u", "l", "l">>
    [] v.t = "array" -> <<>>
    [] OTHER -> <<"[", "o", "b", "j", "e", "c", "t", " ", "O", "b", "j", "e", "c", "t", "]">>

Whitespace == {" "}

\* String.prototype.trim
RECURSIVE TrimStart(_)
TrimStart(s) == IF s # <<>> /\ Head(s) \in Whitespace THEN TrimStart(Tail(s)) ELSE s

RECURSIVE TrimEnd(_)
TrimEnd(s) ==
  IF s # <<>> /\ s[Len(s)] \in Whitespace THEN TrimEnd(SubSeq(s, 1, Len(s) - 1)) ELSE s

Trim(s) == TrimEnd(TrimStart(s))

\* ------------------------------------------------------- fixed strings
DebugMsg ==
  <<
     "D", "E", "B", "U", "G", ":", " ", "A", "P", "I", " ", "K", "e", "y", " ", "u",
     "n", "d", "e", "f", "i", "n", "e", "d", ".", " ", "C", "h", "e", "c", "k", " ",
     ".", "e", "n", "v", " ", "p", "l", "a", "c", "e", "m", "e", "n", "t", " ", "a",
     "n", "d", " ", "r", "e", "s", "t", "a", "r", "t", " ", "t", "e", "r", "m", "i",
     "n", "a", "l", "." >>

NetworkErrorMsg ==
  <<
     "N", "e", "t", "w", "o", "r", "k", " ", "e", "r", "r", "o", "r", ".", " ", "P",
     "l", "e", "a", "s", "e", " ", "c", "h", "e", "c", "k", " ", "y", "o", "u", "r",
     " ", "i", "n", "t", "e", "r", "n", "e", "t", " ", "c", "o", "n", "n", "e", "c",
     "t", "i", "o", "n", "." >>

ApiErrorPrefix == <<"A", "P", "I", " ", "E", "r", "r", "o", "r", ":", " ">>

\* ------------------------------------------------------------ inputs
\* values the text field is given: empty, blank, plain, padded
Drafts == {<<>>, <<" ">>, <<"a">>, <<" ", "a", " ">>}

\* values of import.meta.env.VITE_GEMINI_API_KEY: unset, set to "", set
ApiKeys == {Undefined, Str(<<>>), Str(<<"k">>)}

TextPart(s) == Obj([text |-> Str(s)])
Candidate(parts) == Obj([content |-> Obj([parts |-> Arr(parts)])])
ErrorObject(code, message) == Obj([code |-> Num(code), message |-> Str(message)])

GoodCandidates == Arr(<<Candidate(<<TextPart(<<"r">>)>>)>>)

\* bodies the endpoint can deliver, as response.json() parses them
SuccessBody == Obj([candidates |-> GoodCandidates])
ErrorBody == Obj([error |-> ErrorObject(429, <<"q">>)])
ErrorAndCandidatesBody == Obj([error |-> ErrorObject(500, <<"q">>), candidates |-> GoodCandidates])
ErrorNoMessageBody == Obj([error |-> Obj([code |-> Num(400)])])
NoTextBody == Obj([candidates |-> Arr(<<Candidate(<<Obj([inlineData |-> Str(<<"d">>)])>>)>>)])
NoCandidatesBody == Obj([candidates |-> Arr(<<>>)])
BlockedBody == Obj([promptFeedback |-> Obj([blockReason |-> Str(<<"s">>)])])

JsonBodies ==
  { SuccessBody, ErrorBody, ErrorAndCandidatesBody, ErrorNoMessageBody,
    NoTextBody, NoCandidatesBody, BlockedBody, Null }

\* what fetch delivered to a call: nothing yet, a rejection, or a Response
\* whose body is JSON (data: the value response.json() yields) or is not
Pending == [settled |-> "pending", isJson |-> FALSE, data |-> Undefined]
Rejection == [settled |-> "rejected", isJson |-> FALSE, data |-> Undefined]
JsonResponse(d) == [settled |-> "fulfilled", isJson |-> TRUE, data |-> d]
NonJsonResponse == [settled |-> "fulfilled", isJson |-> FALSE, data |-> Undefined]

Responses == {JsonResponse(d) : d \in JsonBodies} \cup {NonJsonResponse}

\* ------------------------------------------------------------- state
\* GEMINI_API_KEY  the module constant read from the environment
\* messages        the Conversation (useState cell)
\* input           the draft (useState cell)
\* isLoading       the busy flag (useState cell)
\* calls           the invocations of sendMessage that passed its guard, in
\*                 order: where each is suspended (pc), its locals userMsg,
\*                 response and botResponse, and base, the Conversation it found
\* requests        the prompts POSTed through fetch, in order
\* consoleErrors   the values written by console.error, in order
\* event           the event-loop task or microtask that ran last
VARIABLES GEMINI_API_KEY, messages, input, isLoading, calls, requests, consoleErrors, event

vars == <<GEMINI_API_KEY, messages, input, isLoading, calls, requests, consoleErrors, event>>

Ev(type, key) == [type |-> type, key |-> key]

Init ==
  /\ GEMINI_API_KEY \in ApiKeys
  /\ messages = <<>>
  /\ input = <<>>
  /\ isLoading = FALSE
  /\ calls = <<>>
  /\ requests = <<>>
  /\ consoleErrors = <<>>
  /\ event = Ev("mount", "")

\* a promise continuation is queued: it runs before the next event is dispatched
MicrotaskPending == \E i \in DOMAIN calls : calls[i].pc = "resume"

\* the network calls that were issued and have not settled
InFlight == {i \in DOMAIN calls : calls[i].pc \in {"fetch", "json"}}

\* ------------------------------------------------------ getGeminiResponse
\* mutant: only an unset key counts as missing
NoCredential_UnsetOnly == GEMINI_API_KEY.t = "undefined"

\* line 19: if (!GEMINI_API_KEY)
NoCredential == ~Truthy(GEMINI_API_KEY)

\* mutant: candidates are looked at before the error
HasError_UnlessCandidates(data) ==
  Truthy(Get(data, "error")) /\ ~Truthy(Get(data, "candidates"))

\* line 36: if (data.error)
HasError(data) == Truthy(Get(data, "error"))

\* line 38: `API Error: ${data.error.message}`
ApiErrorText(error) == Str(ApiErrorPrefix \o TemplateString(Get(error, "message")))

\* lines 36-41: the completion of the try block once the body is parsed
ReadData(data) ==
  IF Get(data, "error").t = "throw" THEN Thrown
  ELSE IF HasError(data)
    THEN ApiErrorText(Get(data, "error"))
    ELSE Get(Index(Get(Get(Index(Get(data, "candidates"), 0), "content"), "parts"), 0), "text")

\* lines 26-41: the completion of the try block for what fetch delivered
TryBody(response) ==
  IF response.settled = "fulfilled" /\ response.isJson
    THEN ReadData(response.data)
    ELSE Thrown

\* mutant: the catch clause throws the error again
Catch_Rethrow(completion) == completion

\* mutant: the catch clause reports the error like an API error
Catch_AsApiError(completion) ==
  IF completion.t = "throw" THEN Str(ApiErrorPrefix \o TemplateString(Undefined)) ELSE completion

\* lines 42-43: catch (error) { return "Network error. ..." }
Catch(completion) == IF completion.t = "throw" THEN Str(NetworkErrorMsg) ELSE completion

\* line 37: console.error("API Error Code:", data.error.code)
Logged(response) ==
  IF response.settled = "fulfilled" /\ response.isJson
       /\ Get(response.data, "error").t # "throw" /\ HasError(response.data)
    THEN <<Get(Get(response.data, "error"), "code")>>
    ELSE <<>>

\* mutant: the user message carries the trimmed draft
UserMessage_Trimmed(s) == [text |-> Str(Trim(s)), isUser |-> TRUE]

\* lines 52, 56: the Message literals
UserMessage(s) == [text |-> Str(s), isUser |-> TRUE]

BotMessage(v) == [text |-> v, isUser |-> FALSE]

\* mutant: the updater drops the previous messages
AppendMessage_Replace(prev, m) == <<m>>

\* mutant: the new message is put in front
AppendMessage_Prepend(prev, m) == <<m>> \o prev

\* lines 52, 56: setMessages(prev => [...prev, m])
AppendMessage(prev, m) == Append(prev, m)

NewCall(pc, botResponse) ==
  [pc |-> pc, userMsg |-> input, response |-> Pending,
   botResponse |-> botResponse, base |-> messages]

\* mutant: setIsLoading(true) is left out
Dispatch_NoBusy(userInput) ==
  IF NoCredential
    THEN /\ calls' = Append(calls, NewCall("resume", Str(DebugMsg)))
         /\ UNCHANGED <<isLoading, requests>>
    ELSE /\ UNCHANGED isLoading
         /\ requests' = Append(requests, userInput)
         /\ calls' = Append(calls, NewCall("fetch", Undefined))

\* mutant: setIsLoading(true) comes before the credential test
Dispatch_BusyFirst(userInput) ==
  /\ isLoading' = TRUE
  /\ IF NoCredential
       THEN /\ calls' = Append(calls, NewCall("resume", Str(DebugMsg)))
            /\ UNCHANGED requests
       ELSE /\ requests' = Append(requests, userInput)
            /\ calls' = Append(calls, NewCall("fetch", Undefined))

\* lines 17-32: getGeminiResponse(userInput) up to its first suspension
Dispatch(userInput) ==
  IF NoCredential
    THEN /\ calls' = Append(calls, NewCall("resume", Str(DebugMsg)))
         /\ UNCHANGED <<isLoading, requests>>
    ELSE /\ isLoading' = TRUE
         /\ requests' = Append(requests, userInput)
         /\ calls' = Append(calls, NewCall("fetch", Undefined))

\* mutant: setIsLoading(false) ends the try block instead of sitting in finally
Return_ClearOnlyOnSuccess(i, response, completion) ==
  /\ calls' = [calls EXCEPT ![i].pc = "resume", ![i].response = response,
                            ![i].botResponse = Catch(completion)]
  /\ isLoading' = IF completion.t = "throw" THEN isLoading ELSE FALSE

\* lines 22-46: the try statement completes in call i with `completion`, which
\* the catch clause replaces if it is a throw; finally clears the flag, and
\* the value returned waits for sendMessage to resume
Return(i, response, completion) ==
  /\ calls' = [calls EXCEPT ![i].pc = "resume", ![i].response = response,
                            ![i].botResponse = Catch(completion)]
  /\ isLoading' = FALSE

\* ------------------------------------------------------------ sendMessage
\* mutant: the busy flag is not tested
Rejected_IgnoreBusy == ~Truthy(Str(Trim(input)))

\* mutant: the draft is not trimmed
Rejected_NoTrim == ~Truthy(Str(input)) \/ isLoading

\* line 50: if (!input.trim() || isLoading) return;
Rejected == ~Truthy(Str(Trim(input))) \/ isLoading

\* mutant: setInput('') is left out
SendMessage_KeepDraft ==
  IF Rejected
    THEN UNCHANGED <<messages, input, isLoading, calls, requests, consoleErrors>>
    ELSE /\ Len(calls) < MaxCycles
         /\ messages' = AppendMessage(messages, UserMessage(input))
         /\ Dispatch(input)
         /\ UNCHANGED <<input, consoleErrors>>

\* mutant: the user message is not appended before the call
SendMessage_NoUserAppend ==
  IF Rejected
    THEN UNCHANGED <<messages, input, isLoading, calls, requests, consoleErrors>>
    ELSE /\ Len(calls) < MaxCycles
         /\ input' = <<>>
         /\ Dispatch(input)
         /\ UNCHANGED <<messages, consoleErrors>>

\* lines 49-55: sendMessage up to its first suspension
SendMessage ==
  IF Rejected
    THEN UNCHANGED <<messages, input, isLoading, calls, requests, consoleErrors>>
    ELSE /\ Len(calls) < MaxCycles
         /\ messages' = AppendMessage(messages, UserMessage(input))
         /\ input' = <<>>
         /\ Dispatch(input)
         /\ UNCHANGED consoleErrors

\* ------------------------------------------------------------ user events
\* line 73: onChange={(e) => setInput(e.target.value)}
ChangeInput(v) ==
  /\ ~MicrotaskPending
  /\ input' = v
  /\ event' = Ev("change", "")
  /\ UNCHANGED <<GEMINI_API_KEY, messages, isLoading, calls, requests, consoleErrors>>

Keys == {"Enter", "a"}

\* line 74: onKeyDown={(e) => e.key === 'Enter' && sendMessage()}
KeyDown(key) ==
  /\ ~MicrotaskPending
  /\ event' = Ev("keydown", key)
  /\ IF key = "Enter"
       THEN SendMessage
       ELSE UNCHANGED <<messages, input, isLoading, calls, requests, consoleErrors>>
  /\ UNCHANGED GEMINI_API_KEY

\* line 77: <button onClick={sendMessage} disabled={isLoading}>
ClickSend ==
  /\ ~MicrotaskPending
  /\ ~isLoading
  /\ event' = Ev("click", "")
  /\ SendMessage
  /\ UNCHANGED GEMINI_API_KEY

\* ------------------------------------------------------ settling of a call
\* line 26: the promise of fetch is fulfilled with a Response; the call goes
\* on to await response.json()
FetchResolve(i, r) ==
  /\ calls[i].pc = "fetch"
  /\ calls' = [calls EXCEPT ![i].pc = "json", ![i].response = r]
  /\ event' = Ev("fetchResolve", "")
  /\ UNCHANGED <<GEMINI_API_KEY, messages, input, isLoading, requests, consoleErrors>>

\* mutant: a rejected fetch is tried again
FetchReject_Retry(i) ==
  /\ calls[i].pc = "fetch"
  /\ requests' = Append(requests, calls[i].userMsg)
  /\ event' = Ev("fetchReject", "")
  /\ UNCHANGED <<GEMINI_API_KEY, messages, input, isLoading, calls, consoleErrors>>

\* lines 26, 42-46: the promise of fetch is rejected; catch, then finally
FetchReject(i) ==
  /\ calls[i].pc = "fetch"
  /\ Return(i, Rejection, TryBody(Rejection))
  /\ event' = Ev("fetchReject", "")
  /\ UNCHANGED <<GEMINI_API_KEY, messages, input, requests, consoleErrors>>

\* lines 34-46: response.json() settles; the rest of try, catch, then finally
JsonSettle(i) ==
  /\ calls[i].pc = "json"
  /\ Return(i, calls[i].response, TryBody(calls[i].response))
  /\ consoleErrors' = consoleErrors \o Logged(calls[i].response)
  /\ event' = Ev("jsonSettle", "")
  /\ UNCHANGED <<GEMINI_API_KEY, messages, input, requests>>

\* mutant: the draft is cleared when the response arrives
Resume_ClearsDraft(i) ==
  /\ calls[i].pc = "resume"
  /\ calls' = [calls EXCEPT ![i].pc = "done"]
  /\ messages' = AppendMessage(messages, BotMessage(calls[i].botResponse))
  /\ input' = <<>>
  /\ event' = Ev("resume", "")
  /\ UNCHANGED <<GEMINI_API_KEY, isLoading, requests, consoleErrors>>

\* lines 55-56: sendMessage resumes with the value of getGeminiResponse and
\* appends it; had the promise been rejected, sendMessage would end there
Resume(i) ==
  /\ calls[i].pc = "resume"
  /\ IF calls[i].botResponse.t = "throw"
       THEN /\ calls' = [calls EXCEPT ![i].pc = "rejected"]
            /\ UNCHANGED messages
       ELSE /\ calls' = [calls EXCEPT ![i].pc = "done"]
            /\ messages' = AppendMessage(messages, BotMessage(calls[i].botResponse))
  /\ event' = Ev("resume", "")
  /\ UNCHANGED <<GEMINI_API_KEY, input, isLoading, requests, consoleErrors>>

Next ==
  \/ \E v \in Drafts : ChangeInput(v)
  \/ \E key \in Keys : KeyDown(key)
  \/ ClickSend
  \/ \E i \in DOMAIN calls : \E r \in Responses : FetchResolve(i, r)
  \/ \E i \in DOMAIN calls : FetchReject(i)
  \/ \E i \in DOMAIN calls : JsonSettle(i)
  \/ \E i \in DOMAIN calls : Resume(i)

Spec == Init /\ [][Next]_vars

\* a step of call i that is not a user event
Settle(i) ==
  \/ \E r \in Responses : FetchResolve(i, r)
  \/ FetchReject(i)
  \/ JsonSettle(i)
  \/ Resume(i)

\* every dispatched remote call resolves or rejects, and a queued continuation runs
LiveSpec == Spec /\ \A i \in 1..MaxCycles : WF_vars(i \in DOMAIN calls /\ Settle(i))

\* ================================================================ claims
\* the step was a submit attempt: Enter in the text field, or the Send button
SubmitEvent(e) == (e.type = "keydown" /\ e.key = "Enter") \/ e.type = "click"

\* no usable credential is configured: the key is unset or empty
CredentialMissing == GEMINI_API_KEY \in {Undefined, Str(<<>>)}

\* the step accepts a submit: an attempt on a sendable draft while not busy
ValidSubmit == SubmitEvent(event') /\ ~isLoading /\ Trim(input) # <<>>

\* the position in the Conversation of the response message of call i
ResponseAt(i) == Len(calls[i].base) + 2

\* sub occurs in s
Contains(s, sub) ==
  \E k \in 1..(Len(s) - Len(sub) + 1) : SubSeq(s, k, k + Len(sub) - 1) = sub

\* every call has run to its end and appended its response
AllDone == \A i \in DOMAIN calls : calls[i].pc = "done"

\* the two entries call i adds to the Conversation it found
Exchange(i) == <<UserMessage(calls[i].userMsg), BotMessage(calls[i].botResponse)>>

\* C1: once the cycle of a valid submit has settled, whatever the remote
\* outcome, the Conversation is the pre-submit Conversation followed by the
\* user message and then the response message, and the busy flag is false.
C1_SettledCycleAddsTwo ==
  \A i \in DOMAIN calls :
    calls[i].pc = "done" =>
      LET n == Len(calls[i].base) IN
        /\ Len(messages) >= n + 2
        /\ SubSeq(messages, 1, n + 2) = calls[i].base \o Exchange(i)
        /\ (i = Len(calls) => Len(messages) = n + 2 /\ ~isLoading)

\* a second cycle, with a credential, has settled after a failed remote call
C1_Witness ==
  /\ Len(calls) = 2 /\ AllDone /\ ~CredentialMissing
  /\ calls[2].response.settled = "rejected"
  /\ Len(messages) = 4

\* C2: in every reachable state at most one inference call is in flight.
C2_AtMostOneInFlight == Cardinality(InFlight) <= 1

\* the second call is in flight while the draft is being edited
C2_Witness == InFlight = {2} /\ event.type = "change" /\ input # <<>>

\* C3: a submit attempt made while the busy flag is true changes nothing: no
\* message, no change of draft or flag, no request.
C3_BusySubmitIsNoOp ==
  [][(SubmitEvent(event') /\ isLoading)
       => UNCHANGED <<messages, input, isLoading, calls, requests, consoleErrors>>]_vars

\* Enter was pressed on a sendable draft while a call was in flight
C3_Witness ==
  /\ event = Ev("keydown", "Enter") /\ isLoading
  /\ input = <<" ", "a", " ">> /\ InFlight # {}

\* C4: a submit attempt whose draft is empty or blank changes nothing, in
\* every state.
C4_BlankSubmitIsNoOp ==
  [][(SubmitEvent(event') /\ Trim(input) = <<>>)
       => UNCHANGED <<messages, input, isLoading, calls, requests, consoleErrors>>]_vars

\* a submit attempt was made on a blank draft while idle
C4_Witness == SubmitEvent(event) /\ input = <<" ">> /\ ~isLoading /\ Len(messages) = 2

\* C5 as claimed: the busy flag is never false while a submitted user message
\* lacks its response message.
C5_BusyUntilAppended == ~AllDone => isLoading

\* C5 amended: the busy flag is true exactly while a network call is in
\* flight; when the response message is appended it is already false.
C5_BusyWhileInFlight ==
  /\ isLoading <=> InFlight # {}
  /\ \A i \in DOMAIN calls : calls[i].pc = "resume" => ~isLoading

\* a credentialed call has settled and cleared the flag, its response is not appended yet
C5_Witness ==
  \E i \in DOMAIN calls :
    /\ calls[i].pc = "resume" /\ calls[i].response.settled = "fulfilled"
    /\ ~isLoading /\ Len(messages) = Len(calls[i].base) + 1

\* C6 as claimed: every valid submit sets the busy flag, with or without a
\* credential.
C6_BusyOnEverySubmit == [][ValidSubmit => isLoading']_vars

\* C6 amended: a valid submit with a credential sets the busy flag in the
\* step that issues the request and leaves the call awaiting fetch; without a
\* credential the flag stays false.
C6_BusyOnCredentialedSubmit ==
  [][ValidSubmit =>
       /\ isLoading' = ~CredentialMissing
       /\ ~CredentialMissing =>
            /\ requests' = Append(requests, input)
            /\ Len(calls') = Len(calls) + 1
            /\ calls'[Len(calls')].pc = "fetch"]_vars

\* the Send button started the second credentialed cycle
C6_Witness == event = Ev("click", "") /\ isLoading /\ Len(requests) = 2 /\ InFlight = {2}

\* C7: if every dispatched call settles, a state with the busy flag true is
\* followed by one with the flag false and every response message appended,
\* whatever the outcome.
C7_EveryCycleSettles == isLoading ~> (~isLoading /\ AllDone)

\* a cycle whose success body had no candidates has settled
C7_Witness ==
  \E i \in DOMAIN calls :
    /\ calls[i].pc = "done" /\ calls[i].response = JsonResponse(BlockedBody)
    /\ ~isLoading /\ Len(messages) = ResponseAt(i)

\* C8: with no credential every valid submit gets the fixed diagnostic string
\* as its response and no network call is ever attempted.
C8_NoCredentialNoNetwork ==
  CredentialMissing =>
    /\ requests = <<>>
    /\ InFlight = {}
    /\ \A i \in DOMAIN calls :
         /\ calls[i].pc \in {"resume", "done"}
         /\ calls[i].pc = "done" => messages[ResponseAt(i)] = BotMessage(Str(DebugMsg))

\* two submits were answered with the diagnostic under an empty key
C8_Witness ==
  /\ GEMINI_API_KEY = Str(<<>>) /\ Len(messages) = 4
  /\ messages[4] = BotMessage(Str(DebugMsg)) /\ requests = <<>>

\* the network call of call i failed: fetch was rejected, or the body read
\* is not JSON
TransportFailed(i) ==
  /\ calls[i].pc \notin {"fetch", "json"}
  /\ \/ calls[i].response.settled = "rejected"
     \/ calls[i].response.settled = "fulfilled" /\ ~calls[i].response.isJson

\* C9: when the network call fails the response message is the fixed
\* network-error string and the busy flag is false again.
C9_TransportFailure ==
  \A i \in DOMAIN calls :
    TransportFailed(i) =>
      /\ calls[i].pc \in {"resume", "done"}
      /\ calls[i].botResponse = Str(NetworkErrorMsg)
      /\ calls[i].pc = "done" => messages[ResponseAt(i)] = BotMessage(Str(NetworkErrorMsg))
      /\ i = Len(calls) => ~isLoading

\* a body that is not JSON was answered with the network-error string
C9_Witness ==
  \E i \in DOMAIN calls :
    /\ calls[i].pc = "done" /\ calls[i].response = NonJsonResponse
    /\ messages[ResponseAt(i)].text = Str(NetworkErrorMsg) /\ ~isLoading

\* the parsed body of call i holds an error object with a code and a message
ErrorObjectIn(i) ==
  LET d == calls[i].response.data IN
    /\ calls[i].response.settled = "fulfilled" /\ calls[i].response.isJson
    /\ d.t = "object" /\ "error" \in DOMAIN d.f
    /\ d.f.error.t = "object" /\ {"code", "message"} \subseteq DOMAIN d.f.error.f

\* C10: when the parsed body holds an error object the response message is
\* "API Error: " followed by the error's message, the error's code is not in
\* it, and candidates in the same body do not change that.
C10_ErrorObjectMessage ==
  \A i \in DOMAIN calls :
    (calls[i].pc = "done" /\ ErrorObjectIn(i)) =>
      LET error == calls[i].response.data.f.error.f
          text == <<"A", "P", "I", " ", "E", "r", "r", "o", "r", ":", " ">> \o error.message.s
      IN /\ messages[ResponseAt(i)] = [text |-> Str(text), isUser |-> FALSE]
         /\ ~Contains(text, Digits(error.code.n))

\* a body with an error object and candidates was answered with the error
C10_Witness ==
  \E i \in DOMAIN calls :
    /\ calls[i].pc = "done" /\ calls[i].response = JsonResponse(ErrorAndCandidatesBody)
    /\ Len(messages) >= ResponseAt(i) /\ consoleErrors # <<>>

\* the parsed body of call i is a well-formed success: no error, and a first
\* candidate whose first part has a text string
WellFormedSuccess(i) ==
  LET d == calls[i].response.data IN
    /\ calls[i].response.settled = "fulfilled" /\ calls[i].response.isJson
    /\ d.t = "object" /\ DOMAIN d.f = {"candidates"}
    /\ Len(d.f.candidates.a) >= 1
    /\ Len(d.f.candidates.a[1].f.content.f.parts.a) >= 1
    /\ "text" \in DOMAIN d.f.candidates.a[1].f.content.f.parts.a[1].f

\* C11: on a well-formed success the user message carries the draft as typed,
\* untrimmed, with isUser true, the prompt sent is that same text, and the
\* response message carries the first part's text verbatim with isUser false.
C11_SuccessExchange ==
  \A i \in DOMAIN calls :
    (calls[i].pc = "done" /\ WellFormedSuccess(i)) =>
      LET n == Len(calls[i].base)
          part == calls[i].response.data.f.candidates.a[1].f.content.f.parts.a[1]
      IN /\ messages[n + 1] = [text |-> Str(calls[i].userMsg), isUser |-> TRUE]
         /\ requests[i] = calls[i].userMsg
         /\ messages[n + 2] = [text |-> part.f.text, isUser |-> FALSE]

\* a padded draft was answered by a well-formed success
C11_Witness ==
  \E i \in DOMAIN calls :
    /\ calls[i].pc = "done" /\ calls[i].response = JsonResponse(SuccessBody)
    /\ calls[i].userMsg = <<" ", "a", " ">>
    /\ messages[ResponseAt(i)].text = Str(<<"r">>)

\* C12: a valid submit clears the draft in the step that appends the user
\* message, before any response; apart from the user's own edits the draft
\* changes at no other time.
C12_DraftClearedOnSubmit ==
  [][/\ ValidSubmit => (input' = <<>> /\ Len(messages') = Len(messages) + 1)
     /\ input' # input => (ValidSubmit \/ event'.type = "change")]_vars

\* the draft is empty right after a submit whose call is still in flight
C12_Witness ==
  /\ SubmitEvent(event) /\ input = <<>>
  /\ InFlight = {1} /\ Len(messages) = 1

\* C13: while the network call of a prompt is in flight, the user message of
\* that prompt is already in the Conversation, right after the Conversation
\* the submit found.
C13_UserMessageBeforeCall ==
  \A i \in InFlight :
    /\ i \in DOMAIN requests
    /\ Len(messages) > Len(calls[i].base)
    /\ messages[Len(calls[i].base) + 1] = [text |-> Str(requests[i]), isUser |-> TRUE]

\* the second prompt is in flight and its user message is the last entry
C13_Witness ==
  /\ InFlight = {2} /\ calls[2].pc = "fetch"
  /\ Len(messages) = 3 /\ messages[3].isUser /\ messages[3].text = Str(requests[2])

\* C14: across every step the previous Conversation is a prefix of the next
\* one: no entry is removed, reordered or changed, the length never decreases.
C14_AppendOnly ==
  [][/\ Len(messages') >= Len(messages)
     /\ SubSeq(messages', 1, Len(messages)) = messages]_vars

\* the response of the second cycle was appended behind the first exchange
C14_Witness ==
  /\ event.type = "resume" /\ Len(messages) = 4 /\ Len(calls) = 2
  /\ SubSeq(messages, 1, 2) = calls[2].base

\* the parsed body of call i, now read, is a success without the expected
\* fields: no error, and candidates missing or empty
MalformedSuccess(i) ==
  LET d == calls[i].response.data IN
    /\ calls[i].pc \notin {"fetch", "json"}
    /\ calls[i].response.settled = "fulfilled" /\ calls[i].response.isJson
    /\ d.t = "object" /\ "error" \notin DOMAIN d.f
    /\ ("candidates" \notin DOMAIN d.f \/ d.f.candidates.a = <<>>)

\* C15 as claimed: the fault raised on a malformed success body is not turned
\* into a string payload and the cycle does not append a response.
C15_MalformedUnhandled ==
  \A i \in DOMAIN calls :
    MalformedSuccess(i) => (calls[i].botResponse.t # "string" /\ calls[i].pc # "done")

\* C15 amended: the fault raised on a malformed success body is caught and
\* becomes the network-error string; the cycle resolves with that response
\* message and the busy flag false.
C15_MalformedIsCaught ==
  \A i \in DOMAIN calls :
    MalformedSuccess(i) =>
      /\ calls[i].pc \in {"resume", "done"}
      /\ calls[i].botResponse = Str(NetworkErrorMsg)
      /\ calls[i].pc = "done" =>
           messages[ResponseAt(i)] = [text |-> Str(NetworkErrorMsg), isUser |-> FALSE]
      /\ i = Len(calls) => ~isLoading

\* a success body with an empty candidates list was answered
C15_Witness ==
  \E i \in DOMAIN calls :
    /\ calls[i].pc = "done" /\ calls[i].response = JsonResponse(NoCandidatesBody)
    /\ Len(messages) = ResponseAt(i) /\ ~isLoading

\* C16: the POSTs issued are exactly the valid submits made with a credential,
\* one each with that submit's prompt, and none is added after an error
\* response or a transport failure.
C16_OneAttemptPerSubmit ==
  /\ Len(requests) = IF CredentialMissing THEN 0 ELSE Len(calls)
  /\ \A i \in DOMAIN requests : requests[i] = calls[i].userMsg

\* two cycles ended, one by a rejected fetch and one by an error response
C16_Witness ==
  /\ Len(calls) = 2 /\ AllDone /\ Len(requests) = 2
  /\ calls[1].response = Rejection
  /\ calls[2].response = JsonResponse(ErrorBody)

\* C17: every Message of the Conversation has a string as its text, also the
\* response to a success body whose first part has no text field.
C17_TextIsString == \A k \in DOMAIN messages : messages[k].text.t = "string"

\* the positions of the user messages, and of the response messages
UserPositions == {k \in DOMAIN messages : messages[k].isUser}

ResponsePositions == {k \in DOMAIN messages : ~messages[k].isUser}

\* C18: the Conversation alternates user, response, user, response, ...; the
\* responses number as many as the user messages or one less, and the length
\* is even whenever no cycle is pending.
C18_RolesAlternate ==
  /\ \A k \in DOMAIN messages : messages[k].isUser <=> (k % 2 = 1)
  /\ Cardinality(UserPositions) - Cardinality(ResponsePositions) \in {0, 1}
  /\ AllDone => Len(messages) % 2 = 0

\* the second user message waits for its response
C18_Witness ==
  /\ Len(messages) = 3 /\ ~AllDone
  /\ Cardinality(UserPositions) = 2 /\ Cardinality(ResponsePositions) = 1

\* the step was the arrival of a response: a promise settled or sendMessage resumed
ArrivalEvent(e) == e.type \in {"fetchResolve", "fetchReject", "jsonSettle", "resume"}

\* C19: while a response is awaited every draft edit is accepted, and a step
\* of the arrival of a response leaves the draft as typed: besides the call
\* itself it changes only the Conversation and the busy flag.
C19_ArrivalKeepsDraft ==
  [][/\ InFlight # {} => \A v \in Drafts : ENABLED ChangeInput(v)
     /\ ArrivalEvent(event') =>
          (input' = input /\ requests' = requests /\ GEMINI_API_KEY' = GEMINI_API_KEY)]_vars

\* text typed while the response was awaited is still the draft after the append
C19_Witness ==
  /\ event.type = "resume" /\ input = <<" ", "a", " ">>
  /\ AllDone /\ Len(messages) = 2 /\ ~CredentialMissing

====
